---- MODULE Spec2Model ----
(***************************************************************************)
(* A model of gowasm/router (src/router.go): the route pattern compiler,   *)
(* the best-match lookup, the navigation operations over the two host      *)
(* backends (history.pushState / location.hash) and the link interceptor.  *)
(*                                                                         *)
(* Strings are sequences of one-character strings, so that strings.Split,  *)
(* strings.HasPrefix and the regular expressions newRoute builds are       *)
(* computed character by character.                                        *)
(***************************************************************************)
EXTENDS Integers, Sequences, FiniteSets, TLC

VARIABLES
    routes,                   \* Router.routes: the compiled routes, in registration order
    ShouldInterceptLinks,     \* Router.ShouldInterceptLinks
    listener,                 \* Router.listener: 0 is nil, else the id of a DOM listener
    browserSupportsPushState, \* the package variable set by init()
    document,                 \* document.Links(): each anchor's href and its click listeners
    onpopstate,               \* js.Global.onpopstate: the callbacks bound to the hook
    onhashchange,             \* js.Global.onhashchange: the callbacks bound to the hook
    history,                  \* the host's session history: entries [pathname, hash]
    cur,                      \* index in history of the current entry (window.location)
    events,                   \* host notifications queued and not yet delivered
    tasks,                    \* goroutines started with `go` and not yet run
    lifecycle,                \* history variable: "Created", "Started" or "Stopped"
    navPending,               \* history variable: see Navigate
    last                      \* history variable: what the last operation did

vars == <<routes, ShouldInterceptLinks, listener, browserSupportsPushState, document,
          onpopstate, onhashchange, history, cur, events, tasks, lifecycle,
          navPending, last>>

----------------------------------------------------------------------------
(* Bounds of the model. *)

MaxRoutes == 2
MaxHistory == 3
MaxEvents == 1
MaxTasks == 2
MaxListeners == 4
MaxNavPending == 2

----------------------------------------------------------------------------
(* Strings. *)

Letters == {"a", "b", "c", "d", "e", "g", "h", "i", "k", "l", "m", "n", "o", "p",
            "r", "s", "t", "w", "x", "y", "z"}

\* The characters of the model's alphabet that the group's class holds.
ClassChars == Letters \cup {"_", "+", "-"}

HasPrefix(s, prefix) ==
    /\ Len(prefix) <= Len(s)
    /\ SubSeq(s, 1, Len(prefix)) = prefix

RECURSIVE SplitLoop(_, _, _, _, _, _)
SplitLoop(s, sep, n, i, field, acc) ==
    IF i > Len(s) THEN Append(acc, field)
    ELSE IF s[i] = sep /\ (n = 0 \/ Len(acc) + 1 < n)
         THEN SplitLoop(s, sep, n, i + 1, <<>>, Append(acc, field))
         ELSE SplitLoop(s, sep, n, i + 1, Append(field, s[i]), acc)

\* strings.Split(s, sep) for a one-character sep.
Split(s, sep) == SplitLoop(s, sep, 0, 1, <<>>, <<>>)

\* strings.SplitN(s, sep, n) for a one-character sep and n > 0.
SplitN(s, sep, n) == SplitLoop(s, sep, n, 1, <<>>, <<>>)

RECURSIVE removeEmptyStrings(_)
removeEmptyStrings(strings) ==
    IF strings = <<>> THEN <<>>
    ELSE IF Head(strings) # <<>>
         THEN <<Head(strings)>> \o removeEmptyStrings(Tail(strings))
         ELSE removeEmptyStrings(Tail(strings))

----------------------------------------------------------------------------
(* Regular expressions. A pattern is the sequence of the atoms of the      *)
(* string newRoute concatenates: the anchors, the optional slash, the     *)
(* capturing group over the class of word characters, + and -, and one     *)
(* atom per character of a literal segment.                                *)

Group == "([\\w+-]*)"

RECURSIVE MatchFrom(_, _, _, _, _)
RECURSIVE MatchGroup(_, _, _, _, _, _)

Failed == [ok |-> FALSE, caps |-> <<>>]

\* The longest n such that path[j .. j+n-1] are all in the class.
RECURSIVE ClassRun(_, _)
ClassRun(path, j) ==
    IF j <= Len(path) /\ path[j] \in ClassChars THEN 1 + ClassRun(path, j + 1) ELSE 0

\* The group takes n characters, then n-1, ... (a greedy star, backtracking).
MatchGroup(regex, i, path, j, caps, n) ==
    LET r == MatchFrom(regex, i + 1, path, j + n, Append(caps, SubSeq(path, j, j + n - 1)))
    IN  IF r.ok THEN r
        ELSE IF n = 0 THEN Failed
        ELSE MatchGroup(regex, i, path, j, caps, n - 1)

\* Match atoms i.. of regex against path from position j on; the captures so far
\* are caps. The result is the captures of the first match in the engine's
\* preference order, or Failed.
MatchFrom(regex, i, path, j, caps) ==
    IF i > Len(regex) THEN [ok |-> TRUE, caps |-> caps]
    ELSE LET a == regex[i] IN
         CASE a = "^" -> IF j = 1 THEN MatchFrom(regex, i + 1, path, j, caps) ELSE Failed
           [] a = "$" -> IF j = Len(path) + 1
                         THEN MatchFrom(regex, i + 1, path, j, caps) ELSE Failed
           [] a = "/?" ->
                LET taken == IF j <= Len(path) /\ path[j] = "/"
                             THEN MatchFrom(regex, i + 1, path, j + 1, caps)
                             ELSE Failed
                IN  IF taken.ok THEN taken
                    ELSE MatchFrom(regex, i + 1, path, j, caps)
           [] a = Group -> MatchGroup(regex, i, path, j, caps, ClassRun(path, j))
           [] OTHER -> IF j <= Len(path) /\ path[j] = a
                       THEN MatchFrom(regex, i + 1, path, j + 1, caps)
                       ELSE Failed

\* regexp.FindStringSubmatch: <<>> (nil) when the pattern does not match, else
\* the whole match followed by the text of each capturing group. Every pattern
\* is anchored at both ends, so the whole match is the path.
FindStringSubmatch(regex, path) ==
    LET r == MatchFrom(regex, 1, path, 1, <<>>)
    IN  IF r.ok THEN <<path>> \o r.caps ELSE <<>>

----------------------------------------------------------------------------
(* Routes. *)

IsParam(str) == str[1] = "{" /\ str[Len(str)] = "}"

\* A variant of newRouteLoop that keeps the brackets in the parameter's name.
RECURSIVE newRouteLoopKeepBrackets(_, _, _)
newRouteLoopKeepBrackets(strs, pattern, paramNames) ==
    IF strs = <<>> THEN [regex |-> pattern \o <<"/?", "$">>, paramNames |-> paramNames]
    ELSE LET str == Head(strs) IN
         IF IsParam(str)
         THEN newRouteLoopKeepBrackets(Tail(strs), pattern \o <<"/", Group>>,
                                       Append(paramNames, str))
         ELSE newRouteLoopKeepBrackets(Tail(strs), pattern \o <<"/">> \o str, paramNames)

RECURSIVE newRouteLoop(_, _, _)
newRouteLoop(strs, pattern, paramNames) ==
    IF strs = <<>> THEN [regex |-> pattern \o <<"/?", "$">>, paramNames |-> paramNames]
    ELSE LET str == Head(strs) IN
         IF IsParam(str)
         THEN newRouteLoop(Tail(strs), pattern \o <<"/", Group>>,
                           Append(paramNames, SubSeq(str, 2, Len(str) - 1)))
         ELSE newRouteLoop(Tail(strs), pattern \o <<"/">> \o str, paramNames)

\* newRoute(path, handler): the handler is named by a number. template keeps
\* the path the route was compiled from; no operation reads it.
newRoute(path, handler) ==
    LET r == newRouteLoop(removeEmptyStrings(Split(path, "/")), <<"^">>, <<>>)
    IN  [regex |-> r.regex, paramNames |-> r.paramNames, handler |-> handler,
         template |-> path]

\* A variant of findBestLoop in which an equal count replaces the current best.
RECURSIVE findBestLoopLastWins(_, _, _, _, _, _)
findBestLoopLastWins(rs, path, i, leastParams, bestRoute, tokens) ==
    IF i > Len(rs) THEN [bestRoute |-> bestRoute, tokens |-> tokens]
    ELSE LET matches == FindStringSubmatch(rs[i].regex, path) IN
         IF matches # <<>> /\ (leastParams = -1 \/ Len(matches) <= leastParams)
         THEN findBestLoopLastWins(rs, path, i + 1, Len(matches), i, Tail(matches))
         ELSE findBestLoopLastWins(rs, path, i + 1, leastParams, bestRoute, tokens)

RECURSIVE findBestLoop(_, _, _, _, _, _)
findBestLoop(rs, path, i, leastParams, bestRoute, tokens) ==
    IF i > Len(rs) THEN [bestRoute |-> bestRoute, tokens |-> tokens]
    ELSE LET matches == FindStringSubmatch(rs[i].regex, path) IN
         IF matches # <<>> /\ (leastParams = -1 \/ Len(matches) < leastParams)
         THEN findBestLoop(rs, path, i + 1, Len(matches), i, Tail(matches))
         ELSE findBestLoop(rs, path, i + 1, leastParams, bestRoute, tokens)

\* Router.findBestRoute: bestRoute is an index of rs, 0 for nil.
findBestRoute(rs, path) == findBestLoop(rs, path, 1, -1, 0, <<>>)

----------------------------------------------------------------------------
(* The state an operation works on. An operation is a function from a      *)
(* state record to a state record; an action applies one to the current    *)
(* state and commits the result. tr records what the operation did, and    *)
(* aborted that the running goroutine has ended early (log.Fatal, a        *)
(* panic): what it had done stays done, the rest of it does not run.       *)

NoTrace ==
    [op |-> "init", arg |-> <<>>, link |-> 0, cause |-> "",
     pushes |-> <<>>, hashSets |-> <<>>, backs |-> 0, queued |-> 0,
     invoked |-> <<>>, misses |-> 0, panics |-> 0, scans |-> 0, installs |-> 0,
     prevented |-> FALSE, spawned |-> 0]

Begin(op, arg, link, cause) ==
    [routes |-> routes, listener |-> listener, document |-> document,
     onpopstate |-> onpopstate, onhashchange |-> onhashchange,
     history |-> history, cur |-> cur, events |-> events, tasks |-> tasks,
     lifecycle |-> lifecycle, navPending |-> navPending, aborted |-> FALSE,
     tr |-> [NoTrace EXCEPT !.op = op, !.arg = arg, !.link = link, !.cause = cause]]

Commit(s) ==
    /\ routes' = s.routes
    /\ listener' = s.listener
    /\ document' = s.document
    /\ onpopstate' = s.onpopstate
    /\ onhashchange' = s.onhashchange
    /\ history' = s.history
    /\ cur' = s.cur
    /\ events' = s.events
    /\ tasks' = s.tasks
    /\ lifecycle' = s.lifecycle
    /\ navPending' = s.navPending
    /\ last' = s.tr
    /\ UNCHANGED <<ShouldInterceptLinks, browserSupportsPushState>>

----------------------------------------------------------------------------
(* The host: window.location, window.history and the two event hooks.      *)

\* getHash: location.hash is "" or starts with "#".
getHash(s) == s.history[s.cur].hash

\* getPath: location.pathname.
getPath(s) == s.history[s.cur].pathname

\* getPathFromHash: strings.SplitN(hash, "#", 2)[1]. The index is out of range
\* when hash holds no "#": ok is FALSE and the goroutine panics.
getPathFromHash(hash) ==
    LET parts == SplitN(hash, "#", 2)
    IN  IF Len(parts) >= 2 THEN [ok |-> TRUE, path |-> parts[2]]
        ELSE [ok |-> FALSE, path |-> <<>>]

\* setHash: location.hash = hash. The host puts "#" before the fragment; when
\* the fragment changes it adds a session history entry and queues one
\* hash-changed notification, and when it does not change it does nothing.
setHash(s, hash) ==
    LET newHash == IF hash = <<>> THEN <<>>
                   ELSE IF Head(hash) = "#" THEN hash ELSE <<"#">> \o hash
        called == [s EXCEPT !.tr.hashSets = Append(@, hash)]
    IN  IF newHash = getHash(s) THEN called
        ELSE [called EXCEPT
                !.history = Append(SubSeq(s.history, 1, s.cur),
                                   [pathname |-> getPath(s), hash |-> newHash]),
                !.cur = s.cur + 1,
                !.events = Append(@, "hashchange"),
                !.tr.queued = @ + 1]

\* pushState: history.pushState(nil, "", path) adds an entry whose URL is path
\* (a path holds no fragment) and fires no notification.
pushState(s, path) ==
    [s EXCEPT !.history = Append(SubSeq(s.history, 1, s.cur),
                                 [pathname |-> path, hash |-> <<>>]),
              !.cur = s.cur + 1,
              !.tr.pushes = Append(@, path)]

\* history.back(): the traversal is queued; it happens in a later host task.
historyBack(s) ==
    [s EXCEPT !.events = Append(@, "traverse"),
              !.tr.backs = @ + 1,
              !.tr.queued = @ + 1]

----------------------------------------------------------------------------
(* Dispatch. *)

RECURSIVE makeParams(_, _, _, _)
makeParams(paramNames, tokens, i, params) ==
    IF i > Len(tokens) THEN params
    ELSE makeParams(paramNames, tokens, i + 1,
                    [k \in DOMAIN params \cup {paramNames[i]} |->
                        IF k = paramNames[i] THEN tokens[i] ELSE params[k]])

\* A variant of pathChanged that returns on a miss without reporting it.
pathChangedSilentMiss(s, path, by) ==
    LET found == findBestRoute(s.routes, path)
        bestRoute == s.routes[found.bestRoute]
    IN  IF found.bestRoute = 0
        THEN [s EXCEPT !.aborted = TRUE]
        ELSE [s EXCEPT !.tr.invoked =
                Append(@, [handler |-> bestRoute.handler,
                           params |-> makeParams(bestRoute.paramNames, found.tokens, 1, <<>>),
                           path |-> path,
                           by |-> by])]

\* Router.pathChanged. by names the caller, for the record of the invocation.
pathChanged(s, path, by) ==
    LET found == findBestRoute(s.routes, path)
        bestRoute == s.routes[found.bestRoute]
    IN  IF found.bestRoute = 0
        THEN [s EXCEPT !.tr.misses = @ + 1, !.aborted = TRUE]
        ELSE IF Len(found.tokens) > Len(bestRoute.paramNames)
        THEN [s EXCEPT !.tr.panics = @ + 1, !.aborted = TRUE]
        ELSE [s EXCEPT !.tr.invoked =
                Append(@, [handler |-> bestRoute.handler,
                           params |-> makeParams(bestRoute.paramNames, found.tokens, 1, <<>>),
                           path |-> path,
                           by |-> by])]

----------------------------------------------------------------------------
(* Link interception. *)

http == <<"h", "t", "t", "p", ":", "/", "/">>
https == <<"h", "t", "t", "p", "s", ":", "/", "/">>

UsedIds(s) ==
    UNION {s.document[i].listeners : i \in DOMAIN s.document} \cup ({s.listener} \ {0})

\* link.AddEventListener wraps the callback in a new function value and
\* returns the wrapper: every installed listener is a listener of its own.
\* An id no anchor and no handle holds any more is free to name a new one.
FreshId(s) == CHOOSE n \in 1..(Cardinality(UsedIds(s)) + 1) : n \notin UsedIds(s)

\* The case for a root-relative href: remove r.listener from this link, add
\* a new listener to this link and keep it in r.listener.
installListener(s, i) ==
    LET removed == IF s.listener # 0
                   THEN s.document[i].listeners \ {s.listener}
                   ELSE s.document[i].listeners
        id == FreshId(s)
    IN  [s EXCEPT !.document[i].listeners = removed \cup {id},
                  !.listener = id,
                  !.tr.installs = @ + 1]

\* A variant of scanLinks without the test for a scheme-relative href.
RECURSIVE scanLinksNoSchemeRelative(_, _)
scanLinksNoSchemeRelative(s, i) ==
    IF i > Len(s.document) THEN s
    ELSE LET href == s.document[i].href IN
         IF href = <<>> THEN s
         ELSE IF HasPrefix(href, http) \/ HasPrefix(href, https) THEN s
         ELSE IF HasPrefix(href, <<"#">>) THEN s
         ELSE IF HasPrefix(href, <<"/">>)
              THEN scanLinksNoSchemeRelative(installListener(s, i), i + 1)
         ELSE scanLinksNoSchemeRelative(s, i + 1)

RECURSIVE scanLinks(_, _)
scanLinks(s, i) ==
    IF i > Len(s.document) THEN s
    ELSE LET href == s.document[i].href IN
         IF href = <<>> THEN s
         ELSE IF HasPrefix(href, http) \/ HasPrefix(href, https)
                 \/ HasPrefix(href, <<"/", "/">>) THEN s
         ELSE IF HasPrefix(href, <<"#">>) THEN s
         ELSE IF HasPrefix(href, <<"/">>) THEN scanLinks(installListener(s, i), i + 1)
         ELSE scanLinks(s, i + 1)

\* Router.InterceptLinks.
InterceptLinks(s) == scanLinks([s EXCEPT !.tr.scans = @ + 1], 1)

\* A variant of interceptIfEnabled that does not read the flag.
interceptAlways(s) == InterceptLinks(s)

\* if r.ShouldInterceptLinks { r.InterceptLinks() }
interceptIfEnabled(s) == IF ShouldInterceptLinks THEN InterceptLinks(s) ELSE s

\* A variant of interceptLink that does not look for a matching route.
interceptLinkUnchecked(s, i) ==
    LET path == s.document[i].href
    IN  [s EXCEPT !.tr.prevented = TRUE,
                  !.tr.spawned = @ + 1,
                  !.tasks = Append(@, [kind |-> "Navigate", path |-> path])]

\* Router.interceptLink, run once by each click listener of the clicked link.
interceptLink(s, i) ==
    LET path == s.document[i].href
    IN  IF findBestRoute(s.routes, path).bestRoute # 0
        THEN [s EXCEPT !.tr.prevented = TRUE,
                       !.tr.spawned = @ + 1,
                       !.tasks = Append(@, [kind |-> "Navigate", path |-> path])]
        ELSE s

RECURSIVE clickLink(_, _, _)
clickLink(s, i, n) == IF n = 0 THEN s ELSE clickLink(interceptLink(s, i), i, n - 1)

----------------------------------------------------------------------------
(* The router's operations. *)

\* Router.HandleFunc: the n-th registration's handler is handler n.
HandleFunc(s, path) ==
    [s EXCEPT !.routes = Append(@, newRoute(path, Len(s.routes) + 1))]

\* A variant of watchHistory that adds its callback to those already bound.
watchHistoryAdding(s) == [s EXCEPT !.onpopstate = Append(@, "watchHistory")]

\* Router.watchHistory: js.Global.Set("onpopstate", callback).
watchHistory(s) == [s EXCEPT !.onpopstate = <<"watchHistory">>]

\* Router.watchHash: js.Global.Set("onhashchange", callback).
watchHash(s) == [s EXCEPT !.onhashchange = <<"watchHash">>]

\* A variant of setInitialHash that also dispatches the root path itself
\* after setting the empty hash.
setInitialHashAndDispatch(s) ==
    IF getHash(s) = <<>> THEN pathChanged(setHash(s, <<"/">>), <<"/">>, "Start")
    ELSE LET decoded == getPathFromHash(getHash(s))
         IN  IF decoded.ok THEN pathChanged(s, decoded.path, "Start")
             ELSE [s EXCEPT !.tr.panics = @ + 1, !.aborted = TRUE]

\* Router.setInitialHash.
setInitialHash(s) ==
    IF getHash(s) = <<>> THEN setHash(s, <<"/">>)
    ELSE LET decoded == getPathFromHash(getHash(s))
         IN  IF decoded.ok THEN pathChanged(s, decoded.path, "Start")
             ELSE [s EXCEPT !.tr.panics = @ + 1, !.aborted = TRUE]

\* Router.Start.
Start(s) ==
    LET watching == IF browserSupportsPushState THEN watchHistory(s)
                    ELSE LET initial == setInitialHash(s)
                         IN  IF initial.aborted THEN initial ELSE watchHash(initial)
    IN  IF watching.aborted THEN watching
        ELSE [interceptIfEnabled(watching) EXCEPT !.lifecycle = "Started",
                                                  !.navPending = 0]

\* A variant of Stop that clears both hooks.
StopBoth(s) ==
    [s EXCEPT !.onpopstate = <<>>, !.onhashchange = <<>>,
              !.lifecycle = "Stopped", !.navPending = 0]

\* Router.Stop.
Stop(s) ==
    LET cleared == IF browserSupportsPushState THEN [s EXCEPT !.onpopstate = <<>>]
                   ELSE [s EXCEPT !.onhashchange = <<>>]
    IN  [cleared EXCEPT !.lifecycle = "Stopped", !.navPending = 0]

\* navPending counts the Navigate calls made under the hash backend on a
\* started router, for a path some route matches, that no handler invocation
\* has answered yet.
owed(s, path) ==
    IF s.lifecycle = "Started" /\ findBestRoute(s.routes, path).bestRoute # 0
    THEN [s EXCEPT !.navPending = @ + 1] ELSE s

\* A variant of Navigate that takes the hash branch under either backend.
NavigateHashAlways(s, path) == interceptIfEnabled(setHash(owed(s, path), path))

\* Router.Navigate.
Navigate(s, path) ==
    IF browserSupportsPushState
    THEN LET changed == pathChanged(pushState(s, path), path, "Navigate")
         IN  IF changed.aborted THEN changed ELSE interceptIfEnabled(changed)
    ELSE interceptIfEnabled(setHash(owed(s, path), path))

\* A variant of Back that dispatches the current path itself.
BackAndDispatch(s) ==
    LET changed == pathChanged(historyBack(s), getPath(s), "Back")
    IN  IF changed.aborted THEN changed ELSE interceptIfEnabled(changed)

\* Router.Back.
Back(s) == interceptIfEnabled(historyBack(s))

\* The goroutine watchHistory's callback starts.
poppedTask(s) ==
    LET changed == pathChanged(s, getPath(s), "popstate")
    IN  IF changed.aborted THEN changed ELSE interceptIfEnabled(changed)

\* The goroutine watchHash's callback starts.
hashTask(s) ==
    LET decoded == getPathFromHash(getHash(s))
    IN  IF ~decoded.ok THEN [s EXCEPT !.tr.panics = @ + 1, !.aborted = TRUE]
        ELSE LET changed == pathChanged(s, decoded.path, "hashchange")
             IN  IF ~changed.aborted /\ s.navPending > 0
                 THEN [changed EXCEPT !.navPending = @ - 1]
                 ELSE changed

\* The callbacks the router binds to the host's hooks; a hook may also hold a
\* callback of the page's own, "page".
RouterCallbacks == {"watchHistory", "watchHash"}

\* A notification reaches a hook: each callback of the router bound to it
\* starts a goroutine.
RECURSIVE notify(_, _, _)
notify(s, hook, kind) ==
    IF hook = <<>> THEN s
    ELSE notify(IF Head(hook) \in RouterCallbacks
                THEN [s EXCEPT !.tasks = Append(@, [kind |-> kind, path |-> <<>>])]
                ELSE s,
                Tail(hook), kind)

\* The host delivers a queued hash-changed notification.
deliverHashChange(s) == notify(s, s.onhashchange, "hashchange")

\* The host goes back one session history entry: the location becomes the
\* previous entry's, the popped notification fires, and the hash-changed one
\* when the fragment differs. On the first entry there is nothing to go back to.
traverse(s) ==
    IF s.cur = 1 THEN s
    ELSE LET old == s.history[s.cur]
             new == s.history[s.cur - 1]
             popped == notify([s EXCEPT !.cur = @ - 1], s.onpopstate, "popstate")
         IN  IF old.hash # new.hash
             THEN notify(popped, s.onhashchange, "hashchange")
             ELSE popped

----------------------------------------------------------------------------
(* Inputs. *)

\* Path templates registered in the navigation and link specifications.
Templates == { <<"/", "a">>, <<"/", "{", "x", "}">> }

\* Paths navigated to: /a (both templates match) and /a/b (none does).
Paths == { <<"/", "a">>, <<"/", "a", "/", "b">> }

\* The hash of the page when the program starts.
InitialHashes == { <<>>, <<"#", "/", "a">> }

\* The href attributes of the navigation specification's document.
NavDocuments == { << <<"/", "a">> >> }

\* The href attributes of the link specification's documents.
LinkDocuments ==
    { << <<"/", "a">>, <<"/", "b">> >>,
      << <<"/", "a">>, https \o <<"x">> >>,
      << <<"/", "a">>, <<"/", "/", "x">>, http \o <<"x">> >>,
      << <<"#", "s">>, <<"/", "a">> >>,
      << <<"/", "a", "/", "b">>, <<>>, <<"/", "a">> >> }

\* The templates and the paths of the route specification.
RouteTemplates ==
    { <<"/", "t", "o", "d", "o", "s", "/", "w", "o", "r", "k">>,
      <<"/", "t", "o", "d", "o", "s", "/", "{", "c", "a", "t", "e", "g", "o", "r", "y", "}">>,
      <<"t", "o", "d", "o", "s", "/", "{", "k", "i", "n", "d", "}", "/">>,
      <<"/", "{", "a", "}", "/", "{", "b", "}">>,
      <<"/", "{", "a", "}", "/", "{", "a", "}">>,
      <<"/", "{", "}">>,
      <<>>,
      <<"/", "/", "x", "{", "a", "}", "/">> }

RoutePaths ==
    { <<"/", "t", "o", "d", "o", "s", "/", "w", "o", "r", "k">>,
      <<"/", "t", "o", "d", "o", "s", "/", "w", "o", "r", "k", "/">>,
      <<"/", "t", "o", "d", "o", "s", "/", "p", "e", "r", "s", "o", "n", "a", "l">>,
      <<"/", "t", "o", "d", "o", "s", "/">>,
      <<"/", "t", "o", "d", "o", "s">>,
      <<"/">>,
      <<>>,
      <<"/", "a", "-", "b", "/", "c", "+", "d">>,
      <<"/", "x", "{", "a", "}">>,
      <<"/", "t", "o", "d", "o", "s", "/", "p", "e", "r", ",", "s", "o", "n", "a", "l">>,
      <<"/", "n", "o", "n", "e", "x", "i", "s", "t", "e", "n", "t", "/", "a", "/", "b">> }

----------------------------------------------------------------------------
(* Actions. *)

InitWith(documents, backends, hashes, hooks) ==
    /\ routes = <<>>
    /\ ShouldInterceptLinks \in BOOLEAN
    /\ listener = 0
    /\ browserSupportsPushState \in backends
    /\ \E hrefs \in documents :
           document = [i \in DOMAIN hrefs |-> [href |-> hrefs[i], listeners |-> {}]]
    /\ onpopstate \in hooks
    /\ onhashchange \in hooks
    /\ \E hash \in hashes : history = << [pathname |-> <<"/">>, hash |-> hash] >>
    /\ cur = 1
    /\ events = <<>>
    /\ tasks = <<>>
    /\ lifecycle = "Created"
    /\ navPending = 0
    /\ last = NoTrace

\* A page that has bound nothing to the host's hooks.
InitOver(documents, backends, hashes) == InitWith(documents, backends, hashes, {<<>>})

\* Room for the listeners one more scan may install.
RoomToScan == Cardinality(UsedIds(Begin("", <<>>, 0, ""))) + Len(document) <= MaxListeners

RoomIfEnabled == ShouldInterceptLinks => RoomToScan

HandleFuncOver(templates) ==
    \E path \in templates :
        /\ Len(routes) < MaxRoutes
        /\ Commit(HandleFunc(Begin("HandleFunc", path, 0, "call"), path))

HandleFuncAct == HandleFuncOver(Templates)

StartAct ==
    /\ (~browserSupportsPushState /\ getHash(Begin("", <<>>, 0, "")) = <<>>) =>
           (cur < MaxHistory /\ Len(events) < MaxEvents)
    /\ RoomIfEnabled
    /\ Commit(Start(Begin("Start", <<>>, 0, "call")))

StopAct == Commit(Stop(Begin("Stop", <<>>, 0, "call")))

NavigateAct ==
    \E path \in Paths :
        /\ cur < MaxHistory /\ Len(events) < MaxEvents /\ RoomIfEnabled
        /\ navPending < MaxNavPending
        /\ Commit(Navigate(Begin("Navigate", path, 0, "call"), path))

BackAct ==
    /\ Len(events) < MaxEvents /\ RoomIfEnabled
    /\ Commit(Back(Begin("Back", <<>>, 0, "call")))

InterceptLinksAct ==
    /\ RoomToScan
    /\ Commit(InterceptLinks(Begin("InterceptLinks", <<>>, 0, "call")))

\* The user clicks the i-th anchor: each of its click listeners runs.
ClickAct ==
    \E i \in DOMAIN document :
        /\ Len(tasks) + Cardinality(document[i].listeners) <= MaxTasks
        /\ Commit(clickLink(Begin("Click", document[i].href, i, "host"), i,
                            Cardinality(document[i].listeners)))

DeliverHashChange ==
    /\ events # <<>> /\ Head(events) = "hashchange"
    /\ Len(tasks) < MaxTasks
    /\ Commit(deliverHashChange(
           [Begin("deliver", <<>>, 0, "host") EXCEPT !.events = Tail(@)]))

Traverse ==
    /\ events # <<>> /\ Head(events) = "traverse"
    /\ Len(tasks) < MaxTasks
    /\ Commit(traverse([Begin("traverse", <<>>, 0, "host") EXCEPT !.events = Tail(@)]))

RunNavigateTask ==
    /\ tasks # <<>> /\ Head(tasks).kind = "Navigate"
    /\ cur < MaxHistory /\ Len(events) < MaxEvents /\ RoomIfEnabled
    /\ navPending < MaxNavPending
    /\ Commit(Navigate(
           [Begin("Navigate", Head(tasks).path, 0, "click") EXCEPT !.tasks = Tail(@)],
           Head(tasks).path))

RunPoppedTask ==
    /\ tasks # <<>> /\ Head(tasks).kind = "popstate"
    /\ RoomIfEnabled
    /\ Commit(poppedTask([Begin("popped", <<>>, 0, "host") EXCEPT !.tasks = Tail(@)]))

RunHashTask ==
    /\ tasks # <<>> /\ Head(tasks).kind = "hashchange"
    /\ Commit(hashTask([Begin("hashchanged", <<>>, 0, "host") EXCEPT !.tasks = Tail(@)]))

\* Registration over the route specification's templates.
RegisterAct == HandleFuncOver(RouteTemplates)

\* pathChanged applied to a path, as a notification's goroutine applies it.
DispatchAct ==
    \E path \in RoutePaths :
        Commit(pathChanged(Begin("pathChanged", path, 0, "call"), path, "call"))

----------------------------------------------------------------------------
(* The navigation specification: one document, both backends. *)

Init == InitOver(NavDocuments, BOOLEAN, InitialHashes)

Next ==
    \/ HandleFuncAct
    \/ StartAct
    \/ StopAct
    \/ NavigateAct
    \/ BackAct
    \/ InterceptLinksAct
    \/ ClickAct
    \/ DeliverHashChange
    \/ Traverse
    \/ RunNavigateTask
    \/ RunPoppedTask
    \/ RunHashTask

Spec == Init /\ [][Next]_vars

(* The link specification: the documents vary, the page starts without a hash. *)

LinkInit == InitOver(LinkDocuments, BOOLEAN, {<<>>})

LinkNext ==
    \/ HandleFuncAct
    \/ StartAct
    \/ NavigateAct
    \/ BackAct
    \/ InterceptLinksAct
    \/ ClickAct
    \/ DeliverHashChange
    \/ Traverse
    \/ RunNavigateTask
    \/ RunPoppedTask
    \/ RunHashTask

LinkSpec == LinkInit /\ [][LinkNext]_vars

(* The route specification: route tables over RouteTemplates, dispatched on *)
(* RoutePaths.                                                              *)

RouteInit == InitOver({<<>>}, {TRUE}, {<<>>}) /\ ~ShouldInterceptLinks

RouteNext ==
    \/ RegisterAct
    \/ DispatchAct

RouteSpec == RouteInit /\ [][RouteNext]_vars

(* The hook specification: the page has bound callbacks of its own to both *)
(* hooks before the router is used.                                         *)

PageHooks == { <<"page">> }

HookInit == InitWith(NavDocuments, BOOLEAN, {<<>>}, PageHooks)

HookNext ==
    \/ HandleFuncAct
    \/ StartAct
    \/ StopAct
    \/ NavigateAct
    \/ BackAct
    \/ InterceptLinksAct
    \/ ClickAct
    \/ DeliverHashChange
    \/ Traverse
    \/ RunNavigateTask
    \/ RunPoppedTask
    \/ RunHashTask

HookSpec == HookInit /\ [][HookNext]_vars

----------------------------------------------------------------------------
(* What the claims speak of. *)

Matches(route, path) == FindStringSubmatch(route.regex, path) # <<>>

\* The number of capturing groups of a route's pattern.
NumGroups(route) == Cardinality({i \in DOMAIN route.regex : route.regex[i] = Group})

SomeRouteMatches(rs, path) == \E i \in DOMAIN rs : Matches(rs[i], path)

\* Route i of rs matches path, no matching route has fewer groups, and none
\* with as few was registered before it.
IsBest(rs, path, i) ==
    /\ Matches(rs[i], path)
    /\ \A j \in DOMAIN rs :
           Matches(rs[j], path) =>
               \/ NumGroups(rs[i]) < NumGroups(rs[j])
               \/ NumGroups(rs[i]) = NumGroups(rs[j]) /\ i <= j

TodosWork == <<"/", "t", "o", "d", "o", "s", "/", "w", "o", "r", "k">>
TodosCategory == <<"/", "t", "o", "d", "o", "s", "/", "{", "c", "a", "t", "e", "g", "o", "r", "y", "}">>

\* C1: for every route table and every path, findBestRoute returns the
\* matching route with the fewest capturing groups, the first registered among
\* those with equally few, and no route exactly when none matches; so
\* /todos/work wins over /todos/{category} for the path /todos/work in either
\* registration order.
C1_BestRoute ==
    /\ \A path \in RoutePaths :
           LET best == findBestRoute(routes, path).bestRoute
           IN  IF SomeRouteMatches(routes, path)
               THEN best \in DOMAIN routes /\ IsBest(routes, path, best)
               ELSE best = 0
    /\ (\E i \in DOMAIN routes : routes[i].template = TodosWork) =>
           LET best == findBestRoute(routes, TodosWork).bestRoute
           IN  best \in DOMAIN routes /\ routes[best].template = TodosWork

\* The parameterized route was registered first, the literal one second, and
\* the dispatch of /todos/work invoked the literal one's handler.
C1_Witness ==
    /\ Len(routes) = 2
    /\ routes[1].template = TodosCategory
    /\ routes[2].template = TodosWork
    /\ last.op = "pathChanged" /\ last.arg = TodosWork
    /\ Len(last.invoked) = 1 /\ last.invoked[1].handler = 2

\* C6: pathChanged on a path no route matches invokes no handler and reports
\* one routing miss; on a path some route matches it invokes the best match's
\* handler once, and no other, and reports no miss.
C6_PathChanged ==
    last.op = "pathChanged" =>
        IF SomeRouteMatches(routes, last.arg)
        THEN /\ Len(last.invoked) = 1
             /\ \E i \in DOMAIN routes :
                    IsBest(routes, last.arg, i) /\ last.invoked[1].handler = routes[i].handler
             /\ last.misses = 0
        ELSE last.invoked = <<>> /\ last.misses = 1

\* pathChanged ran on a table of two routes neither of which matches the path.
C6_Witness ==
    /\ last.op = "pathChanged"
    /\ Len(routes) = 2
    /\ ~SomeRouteMatches(routes, last.arg)
    /\ last.misses = 1

Segments(template) == removeEmptyStrings(Split(template, "/"))

RECURSIVE PlaceholderNames(_)
PlaceholderNames(segs) ==
    IF segs = <<>> THEN <<>>
    ELSE IF IsParam(Head(segs))
         THEN <<SubSeq(Head(segs), 2, Len(Head(segs)) - 1)>> \o PlaceholderNames(Tail(segs))
         ELSE PlaceholderNames(Tail(segs))

\* The path built from a template's segments: a literal is kept, the i-th
\* placeholder becomes values[i], and each segment follows a "/".
RECURSIVE BuildFrom(_, _)
BuildFrom(segs, values) ==
    IF segs = <<>> THEN <<>>
    ELSE IF IsParam(Head(segs))
         THEN <<"/">> \o Head(values) \o BuildFrom(Tail(segs), Tail(values))
         ELSE <<"/">> \o Head(segs) \o BuildFrom(Tail(segs), values)

BuildPath(template, values) ==
    IF Segments(template) = <<>> THEN <<"/">> ELSE BuildFrom(Segments(template), values)

\* The capturable values: the segments of RoutePaths made of word characters,
\* + and - only (the empty one among them).
CapturableValues ==
    {v \in UNION {{Split(p, "/")[i] : i \in DOMAIN Split(p, "/")} : p \in RoutePaths} :
        \A i \in DOMAIN v : v[i] \in ClassChars}

\* path was built from template with some values, and tr records one handler
\* invocation whose parameters map each placeholder's name to its value and
\* hold as many entries as the template has placeholders.
RoundTrips(template, path, tr) ==
    LET names == PlaceholderNames(Segments(template))
        k == Len(names)
    IN  \A values \in [1..k -> CapturableValues] :
            path = BuildPath(template, values) =>
                /\ Len(tr.invoked) = 1
                /\ LET params == tr.invoked[1].params
                   IN  /\ DOMAIN params = {names[i] : i \in 1..k}
                       /\ Cardinality(DOMAIN params) = k
                       /\ \A i \in 1..k : params[names[i]] = values[i]

DistinctNames(template) ==
    LET names == PlaceholderNames(Segments(template))
    IN  \A i, j \in DOMAIN names : names[i] = names[j] => i = j

\* C9 as claimed: with any template as the only route, the dispatch of a path
\* built from it by substitution invokes the handler with exactly the k
\* substituted values under the placeholders' names.
C9_RoundTripAnyTemplate ==
    (last.op = "pathChanged" /\ Len(routes) = 1) =>
        RoundTrips(routes[1].template, last.arg, last)

\* C9 as amended: the same for the templates whose placeholder names are
\* pairwise distinct.
C9_RoundTrip ==
    (last.op = "pathChanged" /\ Len(routes) = 1 /\ DistinctNames(routes[1].template)) =>
        RoundTrips(routes[1].template, last.arg, last)

\* The only route is /{a}/{b} and /a-b/c+d was dispatched to its handler.
C9_Witness ==
    /\ Len(routes) = 1
    /\ routes[1].template = <<"/", "{", "a", "}", "/", "{", "b", "}">>
    /\ last.op = "pathChanged" /\ last.arg = <<"/", "a", "-", "b", "/", "c", "+", "d">>
    /\ Len(last.invoked) = 1
    /\ last.invoked[1].params = [n \in {<<"a">>, <<"b">>} |->
                                    IF n = <<"a">> THEN <<"a", "-", "b">>
                                    ELSE <<"c", "+", "d">>]

----------------------------------------------------------------------------
(* Link interception. *)

IsAbsolute(href) ==
    HasPrefix(href, http) \/ HasPrefix(href, https) \/ HasPrefix(href, <<"/", "/">>)

IsRootRelative(href) == HasPrefix(href, <<"/">>) /\ ~HasPrefix(href, <<"/", "/">>)

\* The scan reaches anchor i and finds it root-relative.
Considered(i) ==
    /\ IsRootRelative(document[i].href)
    /\ \A j \in 1..(i - 1) :
           /\ document[j].href # <<>>
           /\ ~IsAbsolute(document[j].href)
           /\ ~HasPrefix(document[j].href, <<"#">>)

\* The click listeners installed in the whole document.
InstalledListeners ==
    UNION {{<<i, l>> : l \in document[i].listeners} : i \in DOMAIN document}

\* C2 as claimed: once a scan has run, however many have, every root-relative
\* anchor the scan considers carries exactly one click listener.
C2_OneListenerPerAnchor ==
    last.scans >= 1 =>
        \A i \in DOMAIN document :
            Considered(i) => Cardinality(document[i].listeners) = 1

\* C3 as claimed: in every reachable state at most one click listener is
\* installed in the whole document.
C3_AtMostOneListener == Cardinality(InstalledListeners) <= 1

\* C7: an anchor whose href is an absolute URL never carries a click listener,
\* and a click on it is never prevented and starts no Navigate, whatever
\* routes are registered and whatever scans and navigations have run.
C7_AbsoluteNeverIntercepted ==
    \A i \in DOMAIN document :
        IsAbsolute(document[i].href) =>
            /\ document[i].listeners = {}
            /\ (last.op = "Click" /\ last.link = i) =>
                   ~last.prevented /\ last.spawned = 0

\* An absolute anchor was clicked in a document some scan has installed a
\* listener in, with routes registered.
C7_Witness ==
    /\ last.op = "Click"
    /\ IsAbsolute(document[last.link].href)
    /\ listener # 0
    /\ routes # <<>>

----------------------------------------------------------------------------
(* Navigation. *)

\* C4: under the native-history backend a Navigate(p) with p matched by some
\* route makes one history push, of p, invokes the best match's handler once,
\* itself, sets no hash and queues no host notification.
C4_NavigateNative ==
    (last.op = "Navigate" /\ browserSupportsPushState
        /\ SomeRouteMatches(routes, last.arg)) =>
        /\ last.pushes = <<last.arg>>
        /\ Len(last.invoked) = 1
        /\ \E i \in DOMAIN routes :
               /\ IsBest(routes, last.arg, i)
               /\ last.invoked[1].handler = routes[i].handler
        /\ last.invoked[1].by = "Navigate"
        /\ last.invoked[1].path = last.arg
        /\ last.misses = 0
        /\ last.hashSets = <<>>
        /\ last.queued = 0

\* On a started router with /{x} registered before /a, Navigate(/a) under the
\* native backend invoked the second route's handler.
C4_Witness ==
    /\ browserSupportsPushState
    /\ lifecycle = "Started"
    /\ last.op = "Navigate"
    /\ Len(routes) = 2 /\ NumGroups(routes[1]) = 1 /\ NumGroups(routes[2]) = 0
    /\ Len(last.invoked) = 1 /\ last.invoked[1].handler = 2

\* C5 as claimed: under the hash backend a Navigate(p) with p matched by some
\* route sets the hash to p and invokes no handler itself, and each such call
\* is answered by one handler invocation from a hash-changed notification: on
\* a started router with no notification and no goroutine pending, no call is
\* left unanswered.
C5_NavigateHashOnce ==
    /\ (last.op = "Navigate" /\ ~browserSupportsPushState
           /\ SomeRouteMatches(routes, last.arg)) =>
           /\ last.hashSets = <<last.arg>>
           /\ history[cur].hash = <<"#">> \o last.arg
           /\ last.invoked = <<>>
    /\ (~browserSupportsPushState /\ lifecycle = "Started"
           /\ events = <<>> /\ tasks = <<>>) =>
           navPending = 0

\* C8 as claimed: once Stop has been called (and Start not called again) no
\* operation invokes a handler.
C8_NoHandlerAfterStop == lifecycle = "Stopped" => last.invoked = <<>>

AutoScanOps == {"Start", "Navigate", "Back", "popped"}

\* With the flag off, only an explicit InterceptLinks scans or installs.
NoScanWhenDisabled ==
    (~ShouldInterceptLinks /\ last.op # "InterceptLinks") =>
        last.scans = 0 /\ last.installs = 0

----------------------------------------------------------------------------
(* Clicks. *)

\* The goroutines the last step started, the last ones of the queue.
SpawnedTasks == SubSeq(tasks, Len(tasks) - last.spawned + 1, Len(tasks))

\* C11: a click on an anchor that carries a click listener is prevented exactly
\* when some registered route matches its href, and exactly then goroutines
\* running Navigate(href) are started; the click itself invokes no handler and
\* reports no miss, and a Navigate started by a click reports no miss and does
\* not panic.
C11_ClickIntercept ==
    /\ (last.op = "Click" /\ document[last.link].listeners # {}) =>
           /\ last.prevented <=> SomeRouteMatches(routes, last.arg)
           /\ (last.spawned >= 1) <=> SomeRouteMatches(routes, last.arg)
           /\ \A k \in DOMAIN SpawnedTasks :
                  SpawnedTasks[k] = [kind |-> "Navigate", path |-> last.arg]
           /\ last.invoked = <<>>
           /\ last.misses = 0 /\ last.panics = 0
    /\ (last.op = "Navigate" /\ last.cause = "click") =>
           last.misses = 0 /\ last.panics = 0

\* With a route registered, an anchor that carries a listener and whose href
\* no route matches was clicked, and the click was left to the browser.
C11_Witness ==
    /\ last.op = "Click"
    /\ document[last.link].listeners # {}
    /\ routes # <<>>
    /\ ~SomeRouteMatches(routes, last.arg)
    /\ ~last.prevented /\ last.spawned = 0

----------------------------------------------------------------------------
(* Start under the hash backend. *)

RootHash == <<"#", "/">>

\* C12: a Start under the hash backend on an empty hash sets the hash to /,
\* calls pathChanged not at all, queues one hash-changed notification and
\* leaves the hash-changed callback installed; that callback turns a delivered
\* notification into one goroutine, which calls pathChanged once, with / while
\* the hash is #/. A Start on a non-empty hash calls pathChanged once, itself,
\* with the hash less its #, leaves the location as it was, and queues no
\* notification and starts no goroutine.
C12_StartHash ==
    [][ /\ (last'.op = "Start" /\ ~browserSupportsPushState) =>
             IF history[cur].hash = <<>>
             THEN /\ last'.hashSets = << <<"/">> >>
                  /\ last'.invoked = <<>> /\ last'.misses = 0
                  /\ history'[cur'].hash = RootHash
                  /\ events' = Append(events, "hashchange")
                  /\ onhashchange' = <<"watchHash">>
                  /\ tasks' = tasks
             ELSE /\ last'.hashSets = <<>>
                  /\ Len(last'.invoked) + last'.misses = 1
                  /\ \A k \in DOMAIN last'.invoked :
                         /\ last'.invoked[k].path = Tail(history[cur].hash)
                         /\ last'.invoked[k].by = "Start"
                  /\ history' = history /\ cur' = cur
                  /\ events' = events /\ tasks' = tasks
        /\ (last'.op = "deliver" /\ onhashchange = <<"watchHash">>) =>
             tasks' = Append(tasks, [kind |-> "hashchange", path |-> <<>>])
        /\ (last'.op = "hashchanged" /\ history[cur].hash = RootHash) =>
             /\ Len(last'.invoked) + last'.misses = 1
             /\ \A k \in DOMAIN last'.invoked :
                    /\ last'.invoked[k].path = <<"/">>
                    /\ last'.invoked[k].by = "hashchange"
      ]_vars

\* Under the hash backend the page had no hash, Start set it to #/, and the
\* goroutine of the notification that followed dispatched / to a handler.
C12_Witness ==
    /\ ~browserSupportsPushState
    /\ lifecycle = "Started"
    /\ Len(history) = 2 /\ cur = 2
    /\ history[1].hash = <<>> /\ history[2].hash = RootHash
    /\ last.op = "hashchanged"
    /\ Len(last.invoked) = 1 /\ last.invoked[1].path = <<"/">>

----------------------------------------------------------------------------
(* The reach of a scan. *)

\* C13 as claimed: after a scan every root-relative anchor carries a click
\* listener, whatever absolute or same-document anchors come before it in the
\* document (anchors after one with an empty href set aside).
C13_ScanReachesAll ==
    last.scans >= 1 =>
        \A i \in DOMAIN document :
            (/\ IsRootRelative(document[i].href)
             /\ \A j \in 1..(i - 1) : document[j].href # <<>>) =>
                document[i].listeners # {}

\* C14 as claimed: whatever scans have run, one click starts at most one
\* Navigate.
C14_OneNavigatePerClick == last.op = "Click" => last.spawned <= 1

----------------------------------------------------------------------------
(* Stop. *)

NotificationOps == {"popped", "hashchanged"}

\* C15 as claimed: once Stop has returned (and Start has not been called
\* again) no goroutine of a popped or hash-changed notification invokes a
\* handler, however notification, goroutine and Stop interleave.
C15_NoDispatchAfterStop ==
    (lifecycle = "Stopped" /\ last.op \in NotificationOps) => last.invoked = <<>>

\* C16: Stop under the native backend empties the popped hook and leaves the
\* hash-changed hook as it was, and under the hash backend the reverse; under
\* both it leaves the routes, the ShouldInterceptLinks flag, the anchors'
\* click listeners and the listener handle as they were.
C16_StopFrame ==
    [][ last'.op = "Stop" =>
          /\ IF browserSupportsPushState
             THEN onpopstate' = <<>> /\ onhashchange' = onhashchange
             ELSE onhashchange' = <<>> /\ onpopstate' = onpopstate
          /\ routes' = routes
          /\ ShouldInterceptLinks' = ShouldInterceptLinks
          /\ document' = document
          /\ listener' = listener
      ]_vars

\* Under the native backend Stop was called on a started router with a route
\* and an installed click listener; the page's hash-changed callback is still
\* bound.
C16_Witness ==
    /\ last.op = "Stop"
    /\ browserSupportsPushState
    /\ lifecycle = "Stopped"
    /\ onpopstate = <<>> /\ onhashchange = <<"page">>
    /\ routes # <<>> /\ listener # 0

----------------------------------------------------------------------------
(* Back. *)

\* The one invocation tr records is of the best route for path, by the
\* goroutine of a notification of the given kind.
DispatchedOnce(tr, rs, path, by) ==
    /\ Len(tr.invoked) = 1
    /\ \E i \in DOMAIN rs :
           IsBest(rs, path, i) /\ tr.invoked[1].handler = rs[i].handler
    /\ tr.invoked[1].path = path
    /\ tr.invoked[1].by = by
    /\ tr.misses = 0

----------------------------------------------------------------------------
(* Decoding the hash. *)

\* C18 as claimed: under the hash backend the goroutine of every hash-changed
\* notification decodes the hash without failing and calls pathChanged once.
C18_HashAlwaysDecodes ==
    (last.op = "hashchanged" /\ ~browserSupportsPushState) =>
        /\ last.panics = 0
        /\ Len(last.invoked) + last.misses = 1

----------------------------------------------------------------------------
(* The scan after a dispatch. *)

DispatchingOps == {"Navigate", "popped", "hashchanged"}

\* C19 as claimed: with ShouldInterceptLinks on and the router started, a
\* Navigate or a notification's goroutine that invoked a handler ran the scan
\* after it, under either backend.
C19_ScanAfterHandler ==
    (/\ ShouldInterceptLinks
     /\ lifecycle = "Started"
     /\ last.op \in DispatchingOps
     /\ last.invoked # <<>>) =>
        last.scans = 1

----------------------------------------------------------------------------
(* The host listeners. *)

\* The callbacks of the router bound to a hook, as positions of the hook.
RouterBound(hook) == {k \in DOMAIN hook : hook[k] \in RouterCallbacks}

\* C20: after every step at most one callback of the router is bound to the
\* host's two hooks together, it is the callback of the backend chosen at
\* construction (watchHistory on the popped hook under the native backend,
\* watchHash on the hash-changed hook otherwise), and the delivery of one
\* notification or one traversal starts at most one goroutine.
C20_OneHostListener ==
    [][ /\ Cardinality(RouterBound(onpopstate')) + Cardinality(RouterBound(onhashchange')) <= 1
        /\ IF browserSupportsPushState
           THEN /\ RouterBound(onhashchange') = {}
                /\ \A k \in RouterBound(onpopstate') : onpopstate'[k] = "watchHistory"
           ELSE /\ RouterBound(onpopstate') = {}
                /\ \A k \in RouterBound(onhashchange') : onhashchange'[k] = "watchHash"
        /\ last'.op \in {"deliver", "traverse"} => Len(tasks') <= Len(tasks) + 1
      ]_vars

\* On a page with callbacks of its own, the started router's one callback is
\* bound to the popped hook, and a traversal has just started its goroutine.
C20_Witness ==
    /\ browserSupportsPushState
    /\ lifecycle = "Started"
    /\ onpopstate = <<"watchHistory">> /\ onhashchange = <<"page">>
    /\ last.op = "traverse"
    /\ tasks # <<>> /\ tasks[Len(tasks)].kind = "popstate"

====
